---- MODULE Spec2Model ----
(***************************************************************************)
(* Blackjack round engine of blackjack-store: the seeded deck, the hand    *)
(* scoring, and the start / hit / stand route handlers running as          *)
(* concurrent requests against the shared game_round, game_wallet and      *)
(* round_log tables.                                                       *)
(*                                                                         *)
(* A card code is the sequence of its characters (<<"1","0","H">>), a seed *)
(* the sequence of its characters; a 32-bit word is the pair <<hi, lo>> of *)
(* its 16-bit halves, so that no intermediate value leaves TLC's integers. *)
(***************************************************************************)
EXTENDS Integers, Sequences, FiniteSets, TLC

None == "none"

(***************************************************************************)
(* Cards and deck (src/lib/game.ts)                                        *)
(***************************************************************************)
SUITS == <<"S", "H", "D", "C">>

RANKS == << <<"A">>, <<"2">>, <<"3">>, <<"4">>, <<"5">>, <<"6">>, <<"7">>,
            <<"8">>, <<"9">>, <<"1", "0">>, <<"J">>, <<"Q">>, <<"K">> >>

\* buildDeck: for r of RANKS, for s of SUITS, push `${r}${s}`
buildDeck ==
    [k \in 1..(Len(RANKS) * Len(SUITS)) |->
        RANKS[((k - 1) \div Len(SUITS)) + 1] \o <<SUITS[((k - 1) % Len(SUITS)) + 1]>>]

\* code.slice(-1) and code.slice(0, -1)
SuitOf(code) == IF Len(code) = 0 THEN <<>> ELSE <<code[Len(code)]>>

RankOf(code) == IF Len(code) = 0 THEN <<>> ELSE SubSeq(code, 1, Len(code) - 1)

isCardCode(code) ==
    /\ \E i \in 1..Len(SUITS) : <<SUITS[i]>> = SuitOf(code)
    /\ \E i \in 1..Len(RANKS) : RANKS[i] = RankOf(code)

\* assertCardCodes throws on the first invalid code, otherwise returns arr
assertCardCodesOk(arr) == \A i \in 1..Len(arr) : isCardCode(arr[i])

DigitVal(ch) ==
    CASE ch = "0" -> 0 [] ch = "1" -> 1 [] ch = "2" -> 2 [] ch = "3" -> 3
      [] ch = "4" -> 4 [] ch = "5" -> 5 [] ch = "6" -> 6 [] ch = "7" -> 7
      [] ch = "8" -> 8 [] ch = "9" -> 9

\* Number(rank) for the ranks "2".."10"
RECURSIVE NumberOf(_)
NumberOf(s) ==
    IF Len(s) = 0 THEN 0
    ELSE 10 * NumberOf(SubSeq(s, 1, Len(s) - 1)) + DigitVal(s[Len(s)])

rankBaseValue(rank) ==
    IF rank = <<"A">> THEN 1
    ELSE IF rank = <<"J">> \/ rank = <<"Q">> \/ rank = <<"K">> THEN 10
    ELSE NumberOf(rank)

(***************************************************************************)
(* Scoring                                                                 *)
(***************************************************************************)
RECURSIVE SumBase(_)
SumBase(cards) ==
    IF Len(cards) = 0 THEN 0
    ELSE rankBaseValue(RankOf(cards[1])) + SumBase(Tail(cards))

RECURSIVE CountAces(_)
CountAces(cards) ==
    IF Len(cards) = 0 THEN 0
    ELSE (IF RankOf(cards[1]) = <<"A">> THEN 1 ELSE 0) + CountAces(Tail(cards))

\* variant: an ace is upgraded only while the sum stays below 21
UpgradeAcesBelow21(sum, aces, soft) ==
    IF aces > 0 /\ sum + 10 < 21
    THEN [total |-> sum + 10, soft |-> TRUE]
    ELSE [total |-> sum, soft |-> soft]

\* the while loop of calculateBestTotal: upgrade aces while it does not bust
RECURSIVE UpgradeAces(_, _, _)
UpgradeAces(sum, aces, soft) ==
    IF aces > 0 /\ sum + 10 <= 21
    THEN UpgradeAces(sum + 10, aces - 1, TRUE)
    ELSE [total |-> sum, soft |-> soft]

calculateBestTotal(cards) == UpgradeAces(SumBase(cards), CountAces(cards), FALSE)

\* variant: the quotient is rounded to the nearest integer
calculatePointsRounded(total) ==
    IF total > 21 THEN 0
    ELSE IF total = 21 THEN 100
    ELSE IF total > 0 THEN (total * 100 + 10) \div 21
    ELSE 0

\* Math.floor((total / 21) * 100): for the integers 0 < total < 21 the
\* quotient total * 100 / 21 lies at least 1/21 away from every integer, far
\* more than the rounding error of the two double operations, so the floor
\* is that of the exact quotient
calculatePoints(total) ==
    IF total > 21 THEN 0
    ELSE IF total = 21 THEN 100
    ELSE IF total > 0 THEN (total * 100) \div 21
    ELSE 0

\* variant: bust is tested against 31
isBustAbove31(total) == total > 31

\* variant: a total of 21 counts as bust
isBustAt21(total) == total >= 21

isBust(total) == total > 21

updateBalance(balance, points) == IF points > 0 THEN balance + points ELSE balance

canPerformAction(state, action) ==
    CASE action = "start" -> state \in {"idle", "finished", "bust"}
      [] action = "hit" -> state = "playing"
      [] action = "stand" -> state = "playing"
      [] OTHER -> FALSE

toPrismaRoundState(state) ==
    CASE state = "idle" -> "IDLE" [] state = "playing" -> "PLAYING"
      [] state = "bust" -> "BUST" [] state = "finished" -> "FINISHED"

fromPrismaRoundState(state) ==
    CASE state = "IDLE" -> "idle" [] state = "PLAYING" -> "playing"
      [] state = "BUST" -> "bust" [] state = "FINISHED" -> "finished"

(***************************************************************************)
(* 32-bit arithmetic on <<hi, lo>> halves                                  *)
(***************************************************************************)
B16 == 65536

RECURSIVE Pow2(_)
Pow2(n) == IF n = 0 THEN 1 ELSE 2 * Pow2(n - 1)

RECURSIVE XorBits(_, _, _)
XorBits(a, b, n) ==
    IF n = 0 THEN 0
    ELSE ((a + b) % 2) + 2 * XorBits(a \div 2, b \div 2, n - 1)

RECURSIVE OrBits(_, _, _)
OrBits(a, b, n) ==
    IF n = 0 THEN 0
    ELSE (IF a % 2 = 1 \/ b % 2 = 1 THEN 1 ELSE 0) + 2 * OrBits(a \div 2, b \div 2, n - 1)

Word(n) == <<n \div B16, n % B16>>

Xor32(x, y) == <<XorBits(x[1], y[1], 16), XorBits(x[2], y[2], 16)>>

Or32(x, y) == <<OrBits(x[1], y[1], 16), OrBits(x[2], y[2], 16)>>

Add32(x, y) ==
    LET lo == x[2] + y[2]
        hi == x[1] + y[1] + (lo \div B16)
    IN  <<hi % B16, lo % B16>>

\* x >>> k for 0 < k < 16
Shr32(x, k) ==
    <<x[1] \div Pow2(k), (x[2] \div Pow2(k)) + (x[1] % Pow2(k)) * Pow2(16 - k)>>

\* (a * b) mod 2^16 for 16-bit a, b
Mul16Mod(a, b) == ((a * (b % 256)) + ((a * (b \div 256)) % 256) * 256) % B16

\* Math.imul: the low 32 bits of the product
Imul32(x, y) ==
    LET p0 == x[2] * (y[2] % 256)
        p1 == x[2] * (y[2] \div 256)
        low == p0 + (p1 % 256) * 256
        carry == (low \div B16) + (p1 \div 256)
    IN  <<(carry + Mul16Mod(x[1], y[2]) + Mul16Mod(x[2], y[1])) % B16, low % B16>>

(***************************************************************************)
(* RNG and shuffle                                                         *)
(***************************************************************************)
CharCode(ch) ==
    CASE ch = "|" -> 124 [] ch = "a" -> 97 [] ch = "b" -> 98 [] ch = "d" -> 100
      [] ch = "s" -> 115
      [] ch = "t" -> 116 [] ch = "u" -> 117
      [] ch = "0" -> 48 [] ch = "1" -> 49 [] ch = "2" -> 50 [] ch = "3" -> 51

RECURSIVE BitLen(_)
BitLen(n) == IF n = 0 THEN 0 ELSE 1 + BitLen(n \div 2)

\* (h >>> 0) * 0x01000193 as the double the multiplication yields, taken
\* modulo 2^32 (the only way the next `h ^= c` or the final `h >>> 0` reads
\* it).  0x01000193 = 2^24 + 403.  A product of more than 53 bits is rounded
\* to the nearest double, ties to even.
FnvMultiply(x) ==
    LET l0 == x[2] * 403
        l1 == x[1] * 403 + x[2] * 256 + (l0 \div B16)
        l2 == x[1] * 256 + (l1 \div B16)
        n0 == l0 % B16
        n1 == l1 % B16
        high == l2
        bits == IF high = 0 THEN 32 ELSE 32 + BitLen(high)
        q == IF bits > 53 THEN Pow2(bits - 53) ELSE 1
        r == n0 % q
        up == (2 * r > q) \/ (2 * r = q /\ ((n0 \div q) % 2 = 1))
    IN  Add32(<<n1, n0 - r>>, IF up THEN Word(q) ELSE Word(0))

RECURSIVE FnvLoop(_, _, _)
FnvLoop(h, str, i) ==
    IF i > Len(str) THEN h
    ELSE FnvLoop(FnvMultiply(Xor32(h, Word(CharCode(str[i])))), str, i + 1)

\* 0x811c9dc5 = <<0x811c, 0x9dc5>>
fnv1a32(str) == FnvLoop(<<33052, 40389>>, str, 1)

\* one call of the closure mulberry32 returns: the new t and the 32-bit
\* numerator of the value in [0,1).  0x6d2b79f5 = <<0x6d2b, 0x79f5>>
mulberry32(t) ==
    LET t1 == Add32(t, <<27947, 31221>>)
        r1 == Imul32(Xor32(t1, Shr32(t1, 15)), Or32(Word(1), t1))
        r2 == Xor32(r1, Add32(r1, Imul32(Xor32(r1, Shr32(r1, 7)), Or32(Word(61), r1))))
    IN  [t |-> t1, out |-> Xor32(r2, Shr32(r2, 14))]

createSeededRng(seed, nonce) == Xor32(fnv1a32(seed), Word(nonce))

\* variant: the index is drawn over the whole array, Math.floor(rng() * arr.length)
SwapIndexWhole(out, n) == (out[1] * 52 + ((out[2] * 52) \div B16)) \div B16

\* Math.floor(rng() * (i + 1)) for rng() = out / 2^32, i + 1 <= 52
SwapIndex(out, n) == (out[1] * n + ((out[2] * n) \div B16)) \div B16

\* shuffleInPlace on a 1-based sequence: i is the 0-based index of the code
RECURSIVE shuffleInPlace(_, _, _)
shuffleInPlace(arr, t, i) ==
    IF i <= 0 THEN arr
    ELSE LET g == mulberry32(t)
             j == SwapIndex(g.out, i + 1)
             swapped == [arr EXCEPT ![i + 1] = arr[j + 1], ![j + 1] = arr[i + 1]]
         IN  \* the test only fixes the evaluation order: j is always in 0..i
             IF j <= i /\ Len(swapped) = Len(arr)
             THEN shuffleInPlace(swapped, g.t, i - 1)
             ELSE arr

createShuffledDeck(seed, nonce) ==
    shuffleInPlace(buildDeck, createSeededRng(seed, nonce), Len(buildDeck) - 1)

\* variant: the card is taken from the end of the deck
drawCardLast(deck) == [card |-> deck[Len(deck)], deck |-> SubSeq(deck, 1, Len(deck) - 1)]

\* const [card, ...rest] = deck
drawCard(deck) == [card |-> Head(deck), deck |-> Tail(deck)]

\* parts.map(String).join("|")
RECURSIVE deriveSeed(_)
deriveSeed(parts) ==
    IF Len(parts) = 0 THEN <<>>
    ELSE IF Len(parts) = 1 THEN parts[1]
    ELSE parts[1] \o <<"|">> \o deriveSeed(Tail(parts))

(***************************************************************************)
(* Bounds of the model                                                     *)
(***************************************************************************)
\* request handlers that may be in flight at once
NumSlots == 2

\* requests issued in one behaviour
MaxRequests == 3

\* rows of game_round
MaxRounds == 2

\* largest expectedNonce a client sends
MaxExpectedNonce == 1

Slots == 1..NumSlots

\* session.user.id
Users == { <<"u", "1">>, <<"u", "2">> }

\* new Date().toISOString() and randomUUID() as start reads them
Times == { <<"t">> }

UUIDs == { <<"a">>, <<"d">> }

Seeds == { deriveSeed(<<u, t, id>>) : u \in Users, t \in Times, id \in UUIDs }

(***************************************************************************)
(* State                                                                   *)
(***************************************************************************)
VARIABLES
    rounds,     \* table game_round: the sequence of its rows, id = position
    wallets,    \* table game_wallet: one row per user, or none yet
    logs,       \* table round_log, in insertion order
    req,        \* the request each handler slot is serving, and where it is
    issued,     \* requests issued so far
    decks,      \* createShuffledDeck(seed, 0) of every seed start can derive:
                \* a function of its arguments alone, computed once
    calc        \* the call of an engine function under study: its arguments,
                \* its locals and its result (no handler reads or writes it)

vars == <<rounds, wallets, logs, req, issued, decks, calc>>

\* a call createShuffledDeck(seed, nonce) made by a handler: the handlers
\* shuffle with nonce 0 only, and only seeds that start derived
shuffledDeck(seed, nonce) == decks[<<seed, nonce>>]

\* initRound({ seed, dealOne }): nonce defaults to 0
initRound(seed, nonce, dealOne) ==
    LET deck == shuffledDeck(seed, nonce)
        draw == drawCard(deck)
        hand == IF dealOne THEN <<draw.card>> ELSE <<>>
        startLog == [action |-> "start", card |-> <<>>, nonce |-> nonce, totalAfter |-> -1]
        hitLog == [action |-> "hit", card |-> draw.card, nonce |-> nonce + 1,
                   totalAfter |-> calculateBestTotal(hand).total]
    IN  [state |-> "playing",
         seed |-> seed,
         nonce |-> IF dealOne THEN nonce + 1 ELSE nonce,
         hand |-> hand,
         total |-> calculateBestTotal(hand).total,
         deckLeft |-> IF dealOne THEN draw.deck ELSE deck,
         logs |-> IF dealOne THEN <<startLog, hitLog>> ELSE <<startLog>>]



NoRound == [id |-> 0]

NoCalc == [fn |-> None]

NoWallet == [exists |-> FALSE, balance |-> 0]

NoState == [roundId |-> 0]

NoResp == [status |-> 0, wrapped |-> FALSE, state |-> NoState]

IdleReq ==
    [pc |-> "idle", kind |-> None, user |-> <<>>, roundId |-> 0,
     expectedNonce |-> -1, dealOne |-> TRUE, round |-> NoRound,
     wallet |-> NoWallet, pending |-> <<>>, resp |-> NoResp, retry |-> FALSE]

Init ==
    /\ rounds = <<>>
    /\ wallets = [u \in Users |-> NoWallet]
    /\ logs = <<>>
    /\ req = [p \in Slots |-> IdleReq]
    /\ issued = 0
    /\ calc = NoCalc
    /\ decks = [k \in Seeds \X {0} |-> createShuffledDeck(k[1], k[2])]

\* toApiState: throws (status 500) when a stored hand holds an invalid code
toApiState(round, balance) ==
    LET uiState == fromPrismaRoundState(round.state)
    IN  [roundId |-> round.id,
         state |-> uiState,
         seed |-> round.seed,
         nonce |-> round.nonce,
         hand |-> round.hand,
         total |-> round.total,
         pointsLastRound |->
            IF uiState = "finished" \/ uiState = "bust" THEN round.points ELSE 0,
         balance |-> balance]

Respond(status, round, balance, wrapped) ==
    IF assertCardCodesOk(round.hand)
    THEN [status |-> status, wrapped |-> wrapped, state |-> toApiState(round, balance)]
    ELSE [status |-> 500, wrapped |-> FALSE, state |-> NoState]

ErrorResp(status) == [status |-> status, wrapped |-> FALSE, state |-> NoState]

\* wallet?.balance ?? 0
BalanceOrZero(w) == IF w.exists THEN w.balance ELSE 0

\* variant: the round is looked up by id alone
findRoundAnyUser(id, userId) ==
    IF id \in 1..Len(rounds) THEN rounds[id] ELSE NoRound

\* prisma.gameRound.findFirst({ where: { id, userId } })
findRound(id, userId) ==
    IF id \in 1..Len(rounds) /\ rounds[id].userId = userId THEN rounds[id] ELSE NoRound

\* variant: the lookup of the open round without the userId filter
playingRoundsAnyUser(userId) ==
    { i \in 1..Len(rounds) : rounds[i].state = "PLAYING" }

\* the rows prisma.gameRound.findFirst({ where: { userId, state: "PLAYING" } })
\* may return (no orderBy: any matching row)
playingRounds(userId) ==
    { i \in 1..Len(rounds) : rounds[i].userId = userId /\ rounds[i].state = "PLAYING" }

Finish(p, resp) == [req[p] EXCEPT !.pc = "done", !.resp = resp]

CanIssue(p) == req[p].pc \in {"idle", "done"} /\ issued < MaxRequests

\* History, not program state: the request being issued repeats one that was
\* already answered 200 (same route, caller and body), as a client retrying
\* after it lost the response does.  No handler reads it.
IsRetry(kind, user, roundId, expectedNonce) ==
    \E q \in Slots :
        /\ req[q].pc = "done" /\ req[q].resp.status = 200
        /\ req[q].kind = kind /\ req[q].user = user
        /\ req[q].roundId = roundId /\ req[q].expectedNonce = expectedNonce

(***************************************************************************)
(* POST /api/game/start                                                    *)
(***************************************************************************)
\* session check and body parsing (dealOne = body?.dealOne ?? true)
StartBegin(p) ==
    /\ CanIssue(p)
    /\ issued' = issued + 1
    /\ \E session \in Users \cup {<<>>}, dealOne \in {None, "true", "false"} :
          req' = [req EXCEPT ![p] =
                    IF session = <<>>
                    THEN [IdleReq EXCEPT !.kind = "start", !.pc = "done",
                                         !.resp = ErrorResp(401)]
                    ELSE [IdleReq EXCEPT !.kind = "start", !.pc = "wallet",
                                         !.user = session,
                                         !.dealOne = (dealOne # "false")]]
    /\ UNCHANGED <<rounds, wallets, logs, decks, calc>>

\* prisma.gameWallet.findUnique({ where: { userId } }), start and stand alike
WalletFind(p) ==
    /\ req[p].pc = "wallet"
    /\ LET w == wallets[req[p].user]
       IN  req' = [req EXCEPT ![p] =
                [req[p] EXCEPT !.wallet = w,
                               !.pc = IF w.exists THEN "haveWallet" ELSE "walletCreate"]]
    /\ UNCHANGED <<rounds, wallets, logs, issued, decks, calc>>

\* prisma.gameWallet.create: game_wallet_userId_key is unique, so the create
\* of a request that lost the race throws and the handler answers 500
WalletCreate(p) ==
    /\ req[p].pc = "walletCreate"
    /\ IF wallets[req[p].user].exists
       THEN /\ req' = [req EXCEPT ![p] = Finish(p, ErrorResp(500))]
            /\ UNCHANGED wallets
       ELSE LET w == [exists |-> TRUE, balance |-> 0]
            IN  /\ wallets' = [wallets EXCEPT ![req[p].user] = w]
                /\ req' = [req EXCEPT ![p] =
                            [req[p] EXCEPT !.wallet = w, !.pc = "haveWallet"]]
    /\ UNCHANGED <<rounds, logs, issued, decks, calc>>

\* the idempotency lookup: an existing PLAYING round is returned as it is
StartFind(p) ==
    /\ req[p].kind = "start"
    /\ req[p].pc = "haveWallet"
    /\ IF playingRounds(req[p].user) = {}
       THEN req' = [req EXCEPT ![p] = [req[p] EXCEPT !.pc = "create"]]
       ELSE \E i \in playingRounds(req[p].user) :
               req' = [req EXCEPT ![p] =
                    [Finish(p, Respond(200, rounds[i], req[p].wallet.balance, FALSE))
                        EXCEPT !.round = rounds[i]]]
    /\ UNCHANGED <<rounds, wallets, logs, issued, decks, calc>>

\* deriveSeed, initRound and prisma.gameRound.create
StartCreate(p) ==
    /\ req[p].pc = "create"
    /\ Len(rounds) < MaxRounds
    /\ \E t \in Times, uuid \in UUIDs :
          LET seed == deriveSeed(<<req[p].user, t, uuid>>)
              started == initRound(seed, 0, req[p].dealOne)
              createdRound ==
                  [id |-> Len(rounds) + 1,
                   userId |-> req[p].user,
                   state |-> toPrismaRoundState("playing"),
                   seed |-> started.seed,
                   nonce |-> started.nonce,
                   hand |-> started.hand,
                   total |-> started.total,
                   points |-> 0]
          IN  /\ rounds' = Append(rounds, createdRound)
              /\ req' = [req EXCEPT ![p] =
                    [req[p] EXCEPT !.pc = "startLogs", !.round = createdRound,
                                   !.pending = started.logs]]
    /\ UNCHANGED <<wallets, logs, issued, decks, calc>>

\* prisma.roundLog.createMany and the response
StartLogs(p) ==
    /\ req[p].pc = "startLogs"
    /\ logs' = logs \o [k \in 1..Len(req[p].pending) |->
                            [roundId |-> req[p].round.id,
                             action |-> req[p].pending[k].action,
                             card |-> req[p].pending[k].card,
                             nonce |-> req[p].pending[k].nonce,
                             totalAfter |-> req[p].pending[k].totalAfter]]
    /\ req' = [req EXCEPT ![p] =
            [Finish(p, Respond(200, req[p].round, req[p].wallet.balance, FALSE))
                EXCEPT !.pending = <<>>]]
    /\ UNCHANGED <<rounds, wallets, issued, decks, calc>>

(***************************************************************************)
(* POST /api/game/hit                                                      *)
(***************************************************************************)
\* session check and body parsing; roundId 0 is a missing roundId and
\* expectedNonce -1 a body without a numeric expectedNonce
HitBegin(p) ==
    /\ CanIssue(p)
    /\ issued' = issued + 1
    /\ \E session \in Users \cup {<<>>}, roundId \in 0..MaxRounds,
          expectedNonce \in -1..MaxExpectedNonce :
          req' = [req EXCEPT ![p] =
                    IF session = <<>>
                    THEN [IdleReq EXCEPT !.kind = "hit", !.pc = "done",
                                         !.resp = ErrorResp(401)]
                    ELSE IF roundId = 0
                    THEN [IdleReq EXCEPT !.kind = "hit", !.pc = "done",
                                         !.user = session, !.resp = ErrorResp(400)]
                    ELSE [IdleReq EXCEPT !.kind = "hit", !.pc = "hitRead",
                                         !.user = session, !.roundId = roundId,
                                         !.expectedNonce = expectedNonce,
                                         !.retry = IsRetry("hit", session, roundId,
                                                           expectedNonce)]]
    /\ UNCHANGED <<rounds, wallets, logs, decks, calc>>

\* variant: only an expectedNonce ahead of the stored nonce is treated as stale
nonceMismatchAhead(expectedNonce, round) ==
    expectedNonce # -1 /\ expectedNonce > round.nonce

\* the optional idempotency check on body.expectedNonce
nonceMismatch(expectedNonce, round) ==
    expectedNonce # -1 /\ expectedNonce # round.nonce

\* variant: only a finished round is refused
roundNotPlayingFinished(round) == round.state = "FINISHED"

\* if (round.state !== "PLAYING")
roundNotPlaying(round) == round.state # "PLAYING"

\* findFirst({ where: { id, userId } }) and the two checks made on its result
HitRead(p) ==
    /\ req[p].pc = "hitRead"
    /\ LET round == findRound(req[p].roundId, req[p].user)
       IN  req' = [req EXCEPT ![p] =
                IF round = NoRound THEN Finish(p, ErrorResp(404))
                ELSE [req[p] EXCEPT
                        !.round = round,
                        !.pc = IF roundNotPlaying(round) THEN "hitConflict"
                               ELSE IF nonceMismatch(req[p].expectedNonce, round)
                               THEN "hitConflict"
                               ELSE "hitUpdate"]]
    /\ UNCHANGED <<rounds, wallets, logs, issued, decks, calc>>

\* the 409 answers: the wallet is read, the round as read is sent back
\* (inside `current` when the nonce check failed)
HitConflict(p) ==
    /\ req[p].pc = "hitConflict"
    /\ req' = [req EXCEPT ![p] =
            Finish(p, Respond(409, req[p].round,
                              BalanceOrZero(wallets[req[p].user]),
                              req[p].round.state = "PLAYING"))]
    /\ UNCHANGED <<rounds, wallets, logs, issued, decks, calc>>

\* variant: the fallback scan deals the first card of the deck when none is free
firstUnusedOrFirst(baseDeck, hand, from) ==
    LET already == { hand[k] : k \in 1..Len(hand) }
        free == { i \in from..(Len(baseDeck) - 1) : baseDeck[i + 1] \notin already }
    IN  IF free = {} THEN 0 ELSE CHOOSE i \in free : \A k \in free : i <= k

\* the least 0-based index i >= from with baseDeck[i] not in hand, or -1
firstUnused(baseDeck, hand, from) ==
    LET already == { hand[k] : k \in 1..Len(hand) }
        free == { i \in from..(Len(baseDeck) - 1) : baseDeck[i + 1] \notin already }
    IN  IF free = {} THEN -1 ELSE CHOOSE i \in free : \A k \in free : i <= k

\* variant: the card after the one at the nonce is dealt
pickNextCardSkip(baseDeck, nonce, hand) ==
    LET inRange == nonce + 1 < Len(baseDeck)
    IN  [found |-> inRange,
         index |-> IF inRange THEN nonce + 1 ELSE -1,
         card |-> IF inRange THEN baseDeck[nonce + 2] ELSE <<>>]

\* variant: the card at the nonce is taken without looking at the hand
pickNextCardDirect(baseDeck, nonce, hand) ==
    LET inRange == nonce >= 0 /\ nonce < Len(baseDeck)
    IN  [found |-> inRange,
         index |-> IF inRange THEN nonce ELSE -1,
         card |-> IF inRange THEN baseDeck[nonce + 1] ELSE <<>>]

\* the choice of the next card: baseDeck[nonce], or when that is out of range
\* or already in hand the first unused card from there on, then from the start
pickNextCard(baseDeck, nonce, hand) ==
    LET already == { hand[k] : k \in 1..Len(hand) }
        direct == nonce >= 0 /\ nonce < Len(baseDeck) /\ baseDeck[nonce + 1] \notin already
        forward == firstUnused(baseDeck, hand, nonce)
        fromStart == firstUnused(baseDeck, hand, 0)
        index == IF direct THEN nonce
                 ELSE IF forward # -1 THEN forward
                 ELSE fromStart
    IN  [found |-> index # -1,
         index |-> index,
         card |-> IF index # -1 THEN baseDeck[index + 1] ELSE <<>>]

\* variant: the hit writes the nonce back as it read it
nextNonceSame(round) == round.nonce

\* const nextNonce = round.nonce + 1
nextNonce(round) == round.nonce + 1

\* what the hit writes, from the round as it was read
hitData(round) ==
    LET pick == pickNextCard(shuffledDeck(round.seed, 0), round.nonce, round.hand)
        newHand == Append(round.hand, pick.card)
        total == calculateBestTotal(newHand).total
        didBust == isBust(total)
    IN  [found |-> pick.found,
         card |-> pick.card,
         hand |-> newHand,
         total |-> total,
         nonce |-> nextNonce(round),
         didBust |-> didBust,
         state |-> IF didBust THEN toPrismaRoundState("bust")
                   ELSE toPrismaRoundState("playing"),
         points |-> IF didBust THEN 0 ELSE round.points]

\* the rows prisma.gameRound.update({ where: { id: round.id } }) writes to
hitWhere(row, round) == row.id = round.id

\* deck exhausted (410), or prisma.gameRound.update with the new hand
HitUpdate(p) ==
    /\ req[p].pc = "hitUpdate"
    /\ LET round == req[p].round
           d == hitData(round)
       IN  IF ~d.found
           THEN /\ req' = [req EXCEPT ![p] = Finish(p, ErrorResp(410))]
                /\ UNCHANGED rounds
           ELSE /\ rounds' = [i \in 1..Len(rounds) |->
                                IF hitWhere(rounds[i], round)
                                THEN [rounds[i] EXCEPT !.hand = d.hand,
                                                       !.total = d.total,
                                                       !.nonce = d.nonce,
                                                       !.state = d.state,
                                                       !.points = d.points]
                                ELSE rounds[i]]
                /\ req' = [req EXCEPT ![p] =
                            [req[p] EXCEPT !.pc = "hitLog",
                                           !.round = rounds'[round.id],
                                           !.pending = <<[action |-> IF d.didBust THEN "bust" ELSE "hit",
                                                          card |-> d.card,
                                                          nonce |-> d.nonce,
                                                          totalAfter |-> d.total]>>]]
    /\ UNCHANGED <<wallets, logs, issued, decks, calc>>

\* prisma.roundLog.create
HitLog(p) ==
    /\ req[p].pc = "hitLog"
    /\ logs' = Append(logs, [roundId |-> req[p].round.id,
                             action |-> req[p].pending[1].action,
                             card |-> req[p].pending[1].card,
                             nonce |-> req[p].pending[1].nonce,
                             totalAfter |-> req[p].pending[1].totalAfter])
    /\ req' = [req EXCEPT ![p] = [req[p] EXCEPT !.pc = "hitRespond", !.pending = <<>>]]
    /\ UNCHANGED <<rounds, wallets, issued, decks, calc>>

\* the wallet is read for the response, which carries the updated row
HitRespond(p) ==
    /\ req[p].pc = "hitRespond"
    /\ req' = [req EXCEPT ![p] =
            Finish(p, Respond(200, req[p].round,
                              BalanceOrZero(wallets[req[p].user]), FALSE))]
    /\ UNCHANGED <<rounds, wallets, logs, issued, decks, calc>>

(***************************************************************************)
(* POST /api/game/stand                                                    *)
(***************************************************************************)
StandBegin(p) ==
    /\ CanIssue(p)
    /\ issued' = issued + 1
    /\ \E session \in Users \cup {<<>>}, roundId \in 0..MaxRounds :
          req' = [req EXCEPT ![p] =
                    IF session = <<>>
                    THEN [IdleReq EXCEPT !.kind = "stand", !.pc = "done",
                                         !.resp = ErrorResp(401)]
                    ELSE IF roundId = 0
                    THEN [IdleReq EXCEPT !.kind = "stand", !.pc = "done",
                                         !.user = session, !.resp = ErrorResp(400)]
                    ELSE [IdleReq EXCEPT !.kind = "stand", !.pc = "standRead",
                                         !.user = session, !.roundId = roundId,
                                         !.retry = IsRetry("stand", session, roundId, -1)]]
    /\ UNCHANGED <<rounds, wallets, logs, decks, calc>>

\* findFirst({ where: { id, userId } }); the wallet is looked up next
StandRead(p) ==
    /\ req[p].pc = "standRead"
    /\ LET round == findRound(req[p].roundId, req[p].user)
       IN  req' = [req EXCEPT ![p] =
                IF round = NoRound THEN Finish(p, ErrorResp(404))
                ELSE [req[p] EXCEPT !.round = round, !.pc = "wallet"]]
    /\ UNCHANGED <<rounds, wallets, logs, issued, decks, calc>>

\* the round as read is not PLAYING: it is sent back with status 409
StandNotPlaying(p) ==
    /\ req[p].kind = "stand"
    /\ req[p].pc = "haveWallet"
    /\ req[p].round.state # "PLAYING"
    /\ req' = [req EXCEPT ![p] =
            Finish(p, Respond(409, req[p].round, req[p].wallet.balance, FALSE))]
    /\ UNCHANGED <<rounds, wallets, logs, issued, decks, calc>>

\* variant: the finalizing update without the state filter
standWhereAnyState(row, round, userId) ==
    row.id = round.id /\ row.userId = userId

\* the rows tx.gameRound.updateMany({ where: { id, userId, state: "PLAYING" } })
\* matches
standWhere(row, round, userId) ==
    row.id = round.id /\ row.userId = userId /\ row.state = "PLAYING"

\* variant: the wallet update decrements
walletDecrement(balance, points) == IF points > 0 THEN balance - points ELSE balance

\* if (points > 0) tx.gameWallet.update({ data: { balance: { increment: points } } })
walletIncrement(balance, points) == IF points > 0 THEN balance + points ELSE balance

\* variant: the stand that lost sends back the round as it read it
currentRoundAsRead(round) == round

\* tx.gameRound.findUnique({ where: { id: round.id } }) of the stand that lost
currentRound(round) == rounds[round.id]

\* prisma.$transaction: finalize the round if it is still PLAYING, log the
\* stand and credit the wallet; otherwise read the round and wallet back
StandTxn(p) ==
    /\ req[p].kind = "stand"
    /\ req[p].pc = "haveWallet"
    /\ req[p].round.state = "PLAYING"
    /\ LET round == req[p].round
           userId == req[p].user
           total == calculateBestTotal(round.hand).total
           points == calculatePoints(total)
           matched == { i \in 1..Len(rounds) : standWhere(rounds[i], round, userId) }
       IN  IF ~assertCardCodesOk(round.hand)
           THEN /\ req' = [req EXCEPT ![p] = Finish(p, ErrorResp(500))]
                /\ UNCHANGED <<rounds, wallets, logs>>
           ELSE IF matched = {}
           THEN /\ req' = [req EXCEPT ![p] =
                        Finish(p, Respond(409, currentRound(round),
                                          wallets[userId].balance, FALSE))]
                /\ UNCHANGED <<rounds, wallets, logs>>
           ELSE /\ rounds' = [i \in 1..Len(rounds) |->
                                IF i \in matched
                                THEN [rounds[i] EXCEPT
                                        !.state = toPrismaRoundState("finished"),
                                        !.total = total,
                                        !.points = points]
                                ELSE rounds[i]]
                /\ logs' = Append(logs, [roundId |-> round.id, action |-> "stand",
                                         card |-> <<>>, nonce |-> round.nonce,
                                         totalAfter |-> total])
                /\ wallets' = [wallets EXCEPT ![userId].balance =
                                    walletIncrement(wallets[userId].balance, points)]
                /\ req' = [req EXCEPT ![p] =
                        Finish(p, Respond(200, rounds'[round.id],
                                          IF points > 0 THEN wallets'[userId].balance
                                          ELSE req[p].wallet.balance, FALSE))]
    /\ UNCHANGED <<issued, decks, calc>>

(***************************************************************************)
(* Specification                                                           *)
(***************************************************************************)
Next ==
    \E p \in Slots :
        \/ StartBegin(p)
        \/ WalletFind(p)
        \/ WalletCreate(p)
        \/ StartFind(p)
        \/ StartCreate(p)
        \/ StartLogs(p)
        \/ HitBegin(p)
        \/ HitRead(p)
        \/ HitConflict(p)
        \/ HitUpdate(p)
        \/ HitLog(p)
        \/ HitRespond(p)
        \/ StandBegin(p)
        \/ StandRead(p)
        \/ StandNotPlaying(p)
        \/ StandTxn(p)

Spec == Init /\ [][Next]_vars

(***************************************************************************)
(* Two stand requests racing on one PLAYING round.  The round is one that  *)
(* start and hits have produced: its hand is a prefix of its deck that has *)
(* not bust, its log holds the start and the deals, the owner's wallet     *)
(* exists.  Only stand requests are issued.                                *)
(***************************************************************************)
\* cards dealt to the round before the stands arrive
MaxPriorCards == 3

\* the log of a round whose hand is the first n cards of deck
RECURSIVE dealLogs(_, _)
dealLogs(deck, n) ==
    IF n = 0 THEN <<[roundId |-> 1, action |-> "start", card |-> <<>>,
                     nonce |-> 0, totalAfter |-> -1]>>
    ELSE Append(dealLogs(deck, n - 1),
                [roundId |-> 1, action |-> "hit", card |-> deck[n], nonce |-> n,
                 totalAfter |-> calculateBestTotal(SubSeq(deck, 1, n)).total])

StoredRound(user, seed, hand, nonce) ==
    [id |-> 1, userId |-> user, state |-> "PLAYING", seed |-> seed, nonce |-> nonce,
     hand |-> hand, total |-> calculateBestTotal(hand).total, points |-> 0]

InitStand ==
    /\ decks = [k \in Seeds \X {0} |-> createShuffledDeck(k[1], k[2])]
    /\ \E u \in Users, t \in Times, id \in UUIDs, n \in 0..MaxPriorCards :
          LET seed == deriveSeed(<<u, t, id>>)
              deck == decks[<<seed, 0>>]
          IN  /\ ~isBust(calculateBestTotal(SubSeq(deck, 1, n)).total)
              /\ rounds = <<StoredRound(u, seed, SubSeq(deck, 1, n), n)>>
              /\ logs = dealLogs(deck, n)
              /\ wallets = [w \in Users |->
                              IF w = u THEN [exists |-> TRUE, balance |-> 0] ELSE NoWallet]
    /\ req = [p \in Slots |-> IdleReq]
    /\ issued = 0
    /\ calc = NoCalc

NextStand ==
    \E p \in Slots :
        \/ StandBegin(p)
        \/ StandRead(p)
        \/ WalletFind(p)
        \/ StandNotPlaying(p)
        \/ StandTxn(p)

SpecStand == InitStand /\ [][NextStand]_vars

StandLogs(id) == { k \in 1..Len(logs) : logs[k].roundId = id /\ logs[k].action = "stand" }

\* the stand requests that have been answered after reading the round as PLAYING
RacedStands ==
    { p \in Slots : req[p].kind = "stand" /\ req[p].pc = "done"
                    /\ req[p].round # NoRound /\ req[p].round.state = "PLAYING"
                    /\ req[p].resp.status \in {200, 409} }

\* C1: however the read, transaction and response steps of concurrent stand
\* requests on one playing round interleave, the round is finalized at most
\* once; once a stand that read the round as playing has been answered, the
\* round is finished with points = points(bestTotal(hand)) written, exactly
\* one stand is logged, exactly one request was answered 200 and the wallet
\* holds exactly that one credit.
C1_StandRaceCreditsOnce ==
    LET r == rounds[1]
        pts == calculatePoints(calculateBestTotal(r.hand).total)
    IN  /\ Cardinality(StandLogs(1)) <= 1
        /\ Cardinality({ p \in RacedStands : req[p].resp.status = 200 }) <= 1
        /\ wallets[r.userId].balance =
              (IF r.state = "FINISHED" /\ pts > 0 THEN pts ELSE 0)
        /\ r.state = "FINISHED" <=> Cardinality(StandLogs(1)) = 1
        /\ r.state = "FINISHED" =>
              r.points = pts /\ r.total = calculateBestTotal(r.hand).total
        /\ RacedStands # {} => r.state = "FINISHED"
        /\ \A p \in RacedStands :
              req[p].resp.status = 200 =>
                 /\ req[p].resp.state.pointsLastRound = pts
                 /\ req[p].resp.state.balance = (IF pts > 0 THEN pts ELSE 0)

\* two stands both read the round as playing; one was answered 200, the other 409
C1_Witness ==
    \E p, q \in Slots :
        /\ p # q
        /\ p \in RacedStands /\ q \in RacedStands
        /\ req[p].roundId = req[q].roundId
        /\ req[p].resp.status = 200 /\ req[q].resp.status = 409
        /\ wallets[req[p].user].balance > 0

(***************************************************************************)
(* Properties of the three routes running concurrently (Spec).             *)
(***************************************************************************)
Stepped(p) == req'[p] # req[p]

DbUnchanged == rounds' = rounds /\ wallets' = wallets /\ logs' = logs

Terminal(state) == state \in {"BUST", "FINISHED"}

\* what a response shows of a round
Shows(resp, round) ==
    /\ resp.state.roundId = round.id
    /\ resp.state.nonce = round.nonce
    /\ resp.state.hand = round.hand
    /\ resp.state.total = round.total

\* C2: a stored round in state BUST or FINISHED is never written again, by
\* any step of any request, including a hit or stand whose read saw it
\* PLAYING.
C2_TerminalAbsorbing ==
    [][\A i \in 1..Len(rounds) : Terminal(rounds[i].state) => rounds'[i] = rounds[i]]_vars

\* C3: a hit whose expectedNonce differs from the nonce of the round it reads
\* writes nothing (no round, wallet or log row changes in its steps) and is
\* answered 409 with the snapshot of the round as it read it.
C3_StaleNonceRejected ==
    [][\A p \in Slots :
          LET r == findRound(req[p].roundId, req[p].user)
              e == req[p].expectedNonce
          IN  /\ ( /\ req[p].pc = "hitRead" /\ Stepped(p)
                   /\ r # NoRound /\ r.state = "PLAYING"
                   /\ e # -1 /\ e # r.nonce )
                 => (DbUnchanged /\ req'[p].pc = "hitConflict" /\ req'[p].round = r)
              /\ ( /\ req[p].pc = "hitConflict" /\ Stepped(p)
                   /\ req[p].round.state = "PLAYING" )
                 => /\ DbUnchanged
                    /\ req[p].expectedNonce # req[p].round.nonce
                    /\ req'[p].pc = "done"
                    /\ req'[p].resp.status = 409
                    /\ req'[p].resp.wrapped
                    /\ Shows(req'[p].resp, req[p].round)
                    /\ req'[p].resp.state.state = "playing"
                    /\ req'[p].resp.state.balance = BalanceOrZero(wallets[req[p].user])
    ]_vars

\* a hit sent with a stale expectedNonce has been answered 409 with the snapshot
C3_Witness ==
    \E p \in Slots :
        /\ req[p].kind = "hit" /\ req[p].pc = "done"
        /\ req[p].resp.status = 409 /\ req[p].resp.wrapped
        /\ req[p].expectedNonce # req[p].resp.state.nonce
        /\ rounds[req[p].roundId].nonce = req[p].resp.state.nonce

\* C4: of concurrent hits that observed the same nonce of a round only one is
\* applied: no two hits are answered 200 with the same resulting nonce, and
\* the log holds at most one hit or bust entry per round and nonce.
C4_OneWinningHit ==
    /\ \A p, q \in Slots :
          ( /\ p # q
            /\ req[p].kind = "hit" /\ req[p].pc = "done" /\ req[p].resp.status = 200
            /\ req[q].kind = "hit" /\ req[q].pc = "done" /\ req[q].resp.status = 200
            /\ req[p].roundId = req[q].roundId )
          => req[p].resp.state.nonce # req[q].resp.state.nonce
    /\ \A j, k \in 1..Len(logs) :
          ( /\ j # k
            /\ logs[j].action \in {"hit", "bust"} /\ logs[k].action \in {"hit", "bust"}
            /\ logs[j].roundId = logs[k].roundId )
          => logs[j].nonce # logs[k].nonce

\* C5: a request that repeats a hit or stand already answered 200 changes no
\* round and no wallet.
C5_RetryAppliesNothing ==
    [][\A p \in Slots :
          (req[p].retry /\ Stepped(p)) => (rounds' = rounds /\ wallets' = wallets)]_vars

\* C6: a start by a user who has a PLAYING round is answered 200 with the
\* snapshot of such a round; no round is created or changed and no log entry
\* is written.
C6_StartIdempotent ==
    [][\A p \in Slots :
          LET open == { i \in 1..Len(rounds) :
                          rounds[i].userId = req[p].user /\ rounds[i].state = "PLAYING" }
          IN  ( /\ req[p].kind = "start" /\ req[p].pc = "haveWallet" /\ Stepped(p)
                /\ open # {} )
              => /\ DbUnchanged
                 /\ req'[p].pc = "done"
                 /\ req'[p].resp.status = 200
                 /\ \E i \in open :
                       /\ Shows(req'[p].resp, rounds[i])
                       /\ req'[p].resp.state.state = "playing"
    ]_vars

\* two starts of one user have been answered with the same round: the later
\* one found it open
C6_Witness ==
    \E p, q \in Slots :
        /\ p # q
        /\ req[p].kind = "start" /\ req[p].pc = "done" /\ req[p].resp.status = 200
        /\ req[q].kind = "start" /\ req[q].pc = "done" /\ req[q].resp.status = 200
        /\ req[p].user = req[q].user
        /\ req[p].resp.state.roundId = req[q].resp.state.roundId
        /\ Len(rounds) = 1

\* C7: in every step every wallet balance stays or grows, and it grows only in
\* the transaction step of a stand that finds its round still PLAYING and
\* finishes it with points > 0, by exactly those points; no step of a start
\* or hit, and no rejected request, changes a balance.
C7_WalletMonotone ==
    [][\A u \in Users :
          /\ wallets'[u].balance >= wallets[u].balance
          /\ wallets'[u].balance # wallets[u].balance =>
                \E p \in Slots :
                    LET i == req[p].roundId IN
                    /\ req[p].kind = "stand" /\ req[p].user = u
                    /\ req[p].pc = "haveWallet" /\ req'[p].pc = "done"
                    /\ req'[p].resp.status = 200
                    /\ i \in 1..Len(rounds)
                    /\ rounds[i].userId = u
                    /\ rounds[i].state = "PLAYING" /\ rounds'[i].state = "FINISHED"
                    /\ rounds'[i].points > 0
                    /\ wallets'[u].balance = wallets[u].balance + rounds'[i].points
    ]_vars

\* a stand has credited a wallet
C7_Witness ==
    \E p \in Slots :
        /\ req[p].kind = "stand" /\ req[p].pc = "done" /\ req[p].resp.status = 200
        /\ wallets[req[p].user].balance > 0
        /\ wallets[req[p].user].balance = rounds[req[p].roundId].points

\* C8: the step that takes a stored round from PLAYING to FINISHED stores
\* total = bestTotal(hand) of the hand the round then holds and
\* points = points(total), and raises the owner's balance by exactly points
\* when points > 0 and by nothing otherwise (points 100 for a total of 21).
C8_StandFinalizes ==
    [][\A i \in 1..Len(rounds) :
          (rounds[i].state = "PLAYING" /\ rounds'[i].state = "FINISHED") =>
             LET r == rounds'[i]
                 u == r.userId
             IN  /\ r.total = calculateBestTotal(r.hand).total
                 /\ r.points = calculatePoints(r.total)
                 /\ r.total = 21 => r.points = 100
                 /\ wallets'[u].balance =
                       wallets[u].balance + (IF r.points > 0 THEN r.points ELSE 0)
    ]_vars

\* C9: every stored round has nonce = number of cards in its hand.
C9_NonceIsHandLength ==
    \A i \in 1..Len(rounds) : rounds[i].nonce = Len(rounds[i].hand)

\* a round that was dealt its first card by start and two more by hits
C9_Witness ==
    \E i \in 1..Len(rounds) :
        /\ Len(rounds[i].hand) = 3
        /\ \E k \in 1..Len(logs) :
              logs[k].roundId = i /\ logs[k].action \in {"hit", "bust"} /\ logs[k].nonce = 3

(***************************************************************************)
(* Hits on a stored round whose nonce and hand may be out of step.  The    *)
(* hand holds no card twice; the nonce is any index, including one whose   *)
(* card is already in the hand and one past the end of the deck.  Only hit *)
(* requests are issued.                                                    *)
(***************************************************************************)
\* out-of-step hands are drawn from the first DriftCards cards of the deck
DriftCards == 2
\* the stored nonce ranges over 0..MaxDriftNonce and the end of the deck
MaxDriftNonce == 2

\* the rounds were created with this uuid
DriftUUIDs == { <<"a">> }

DriftHands(deck) ==
    { SubSeq(deck, 1, n) : n \in 0..2 }
    \cup { <<deck[a]>> : a \in 1..DriftCards }
    \cup { <<deck[ab[1]], deck[ab[2]]>> :
              ab \in { x \in (1..DriftCards) \X (1..DriftCards) : x[1] # x[2] } }
    \cup { SubSeq(deck, 2, Len(deck)), SubSeq(deck, 1, Len(deck) - 1), deck }

DriftNonces(deck) == (0..MaxDriftNonce) \cup ((Len(deck) - 1)..(Len(deck) + 1))

InitDrift ==
    /\ decks = [k \in Seeds \X {0} |-> createShuffledDeck(k[1], k[2])]
    /\ \E u \in Users, t \in Times, id \in DriftUUIDs :
          LET seed == deriveSeed(<<u, t, id>>)
              deck == decks[<<seed, 0>>]
          IN  /\ \E hand \in DriftHands(deck), nonce \in DriftNonces(deck) :
                    rounds = <<StoredRound(u, seed, hand, nonce)>>
              /\ wallets = [w \in Users |->
                              IF w = u THEN [exists |-> TRUE, balance |-> 0] ELSE NoWallet]
    /\ logs = <<>>
    /\ req = [p \in Slots |-> IdleReq]
    /\ issued = 0
    /\ calc = NoCalc

\* the requests are the owner's hits on the stored round
DriftHitBegin(p) ==
    /\ HitBegin(p)
    /\ req'[p].user = rounds[1].userId
    /\ req'[p].roundId = 1

NextDrift ==
    \E p \in Slots :
        \/ DriftHitBegin(p)
        \/ HitRead(p)
        \/ HitConflict(p)
        \/ HitUpdate(p)
        \/ HitLog(p)
        \/ HitRespond(p)

SpecDrift == InitDrift /\ [][NextDrift]_vars

NoDuplicates(hand) ==
    \A a, b \in 1..Len(hand) : a # b => hand[a] # hand[b]

\* C10: no stored hand holds a card twice, whatever the stored nonce is when
\* hits are applied (in step with the hand, pointing at a card already in the
\* hand, or at or past the end of the deck), and every hand a hit reports
\* is free of duplicates as well.
C10_NoDuplicateCards ==
    /\ \A i \in 1..Len(rounds) : NoDuplicates(rounds[i].hand)
    /\ \A p \in Slots :
          (req[p].kind = "hit" /\ req[p].pc = "done" /\ req[p].resp.status = 200)
          => NoDuplicates(req[p].resp.state.hand)

\* a hit was applied although the card at the stored nonce was already in the
\* hand or the nonce was past the deck: the card dealt is not the one at the
\* nonce the hit read
C10_Witness ==
    \E p \in Slots :
        /\ req[p].kind = "hit" /\ req[p].pc = "done" /\ req[p].resp.status = 200
        /\ LET st == req[p].resp.state
               deck == decks[<<st.seed, 0>>]
           IN  /\ Len(st.hand) > 0
               /\ \/ st.nonce > Len(deck)
                  \/ st.hand[Len(st.hand)] # deck[st.nonce]
               /\ st.nonce # Len(st.hand)

(***************************************************************************)
(* Further properties of the three routes running concurrently (Spec).     *)
(***************************************************************************)
\* C11: every stored hand is the start of createShuffledDeck(seed, 0): a round
\* is created with no card or with deck[0], and every change of a stored hand
\* is the write of a hit that appends deck[nonce] for the nonce it read.
C11_HandIsDeckPrefix ==
    [][\A i \in 1..Len(rounds') :
          LET r == rounds'[i]
              deck == decks[<<r.seed, 0>>]
          IN  /\ \A k \in 1..Len(r.hand) : r.hand[k] = deck[k]
              /\ i > Len(rounds) => (r.hand = <<>> \/ r.hand = <<deck[1]>>)
              /\ (i <= Len(rounds) /\ rounds[i].hand # r.hand) =>
                    \E p \in Slots :
                        /\ req[p].pc = "hitUpdate" /\ req'[p].pc = "hitLog"
                        /\ req[p].round.id = i
                        /\ r.hand = Append(req[p].round.hand,
                                           deck[req[p].round.nonce + 1])
    ]_vars

\* a hit has dealt the second card of the deck to a round
C11_Witness ==
    \E p \in Slots :
        /\ req[p].kind = "hit" /\ req[p].pc = "done" /\ req[p].resp.status = 200
        /\ Len(req[p].resp.state.hand) = 2
        /\ req[p].resp.state.hand[2] = decks[<<req[p].resp.state.seed, 0>>][2]
        /\ rounds[req[p].roundId].hand = req[p].resp.state.hand

(***************************************************************************)
(* Requests on a round that is over.  The round is one that start, hits    *)
(* and a stand have produced: a prefix of its deck that went bust with its *)
(* last card, or one that did not bust and was finished by a stand, with   *)
(* its log and the wallet as that history leaves them.  Hit and stand      *)
(* requests are issued; the steps that write need a PLAYING round and have *)
(* none.                                                                   *)
(***************************************************************************)
SettledRound(user, seed, deck, n) ==
    LET hand == SubSeq(deck, 1, n)
        total == calculateBestTotal(hand).total
    IN  [id |-> 1, userId |-> user, seed |-> seed, nonce |-> n, hand |-> hand,
         total |-> total,
         state |-> IF isBust(total) THEN "BUST" ELSE "FINISHED",
         points |-> IF isBust(total) THEN 0 ELSE calculatePoints(total)]

SettledLogs(deck, n) ==
    LET total == calculateBestTotal(SubSeq(deck, 1, n)).total
    IN  IF isBust(total)
        THEN Append(dealLogs(deck, n - 1),
                    [roundId |-> 1, action |-> "bust", card |-> deck[n], nonce |-> n,
                     totalAfter |-> total])
        ELSE Append(dealLogs(deck, n),
                    [roundId |-> 1, action |-> "stand", card |-> <<>>, nonce |-> n,
                     totalAfter |-> total])

InitSettled ==
    /\ decks = [k \in Seeds \X {0} |-> createShuffledDeck(k[1], k[2])]
    /\ \E u \in Users, t \in Times, id \in UUIDs, n \in 0..MaxPriorCards :
          LET seed == deriveSeed(<<u, t, id>>)
              deck == decks[<<seed, 0>>]
              round == SettledRound(u, seed, deck, n)
          IN  /\ n > 0 => ~isBust(calculateBestTotal(SubSeq(deck, 1, n - 1)).total)
              /\ rounds = <<round>>
              /\ logs = SettledLogs(deck, n)
              /\ wallets = [w \in Users |->
                              IF w = u
                              THEN [exists |-> TRUE,
                                    balance |-> walletIncrement(0, round.points)]
                              ELSE NoWallet]
    /\ req = [p \in Slots |-> IdleReq]
    /\ issued = 0
    /\ calc = NoCalc

NextSettled ==
    \E p \in Slots :
        \/ HitBegin(p)
        \/ HitRead(p)
        \/ HitConflict(p)
        \/ StandBegin(p)
        \/ StandRead(p)
        \/ WalletFind(p)
        \/ StandNotPlaying(p)

SpecSettled == InitSettled /\ [][NextSettled]_vars

\* C13: a hit or stand that reads a round in a state other than PLAYING
\* changes no round, no balance and no log entry in any of its steps and is
\* answered 409 with the snapshot of the round as it read it.
C13_NotPlayingRejected ==
    [][\A p \in Slots :
          LET r == findRound(req[p].roundId, req[p].user)
              rd == req[p].round
              Quiet == /\ rounds' = rounds /\ logs' = logs
                       /\ \A u \in Users :
                             BalanceOrZero(wallets'[u]) = BalanceOrZero(wallets[u])
              Answered == /\ req'[p].resp.status = 409
                          /\ Shows(req'[p].resp, rd)
                          /\ req'[p].resp.state.state = fromPrismaRoundState(rd.state)
                          /\ req'[p].resp.state.pointsLastRound = rd.points
                          /\ req'[p].resp.state.balance = BalanceOrZero(wallets[req[p].user])
          IN  /\ ( /\ req[p].pc \in {"hitRead", "standRead"} /\ Stepped(p)
                   /\ r # NoRound /\ r.state # "PLAYING" )
                 => /\ Quiet
                    /\ req'[p].round = r
                    /\ req'[p].pc = IF req[p].kind = "hit" THEN "hitConflict" ELSE "wallet"
              /\ ( /\ req[p].kind = "hit" /\ req[p].pc = "hitConflict" /\ Stepped(p)
                   /\ rd.state # "PLAYING" )
                 => (Quiet /\ req'[p].pc = "done" /\ Answered)
              /\ ( /\ req[p].kind = "stand" /\ Stepped(p)
                   /\ req[p].pc \in {"wallet", "walletCreate", "haveWallet"}
                   /\ rd.state # "PLAYING" )
                 => /\ Quiet
                    /\ req'[p].pc \in {"walletCreate", "haveWallet", "done"}
                    /\ req'[p].pc = "done" => Answered
    ]_vars

\* a hit on a bust round and a stand on the same round have been answered 409
C13_Witness ==
    \E p, q \in Slots :
        /\ req[p].kind = "hit" /\ req[q].kind = "stand"
        /\ req[p].pc = "done" /\ req[q].pc = "done"
        /\ req[p].resp.status = 409 /\ ~req[p].resp.wrapped
        /\ req[q].resp.status = 409
        /\ req[p].round # NoRound /\ req[p].round.state = "BUST"
        /\ req[q].round = req[p].round
        /\ rounds[req[p].roundId] = req[p].round

\* C14: the write of a hit stores state BUST exactly when bestTotal of the
\* hand it writes exceeds 21 and PLAYING otherwise; a hit that busts stores
\* points 0, changes no balance, and its response carries state bust with
\* pointsLastRound 0.
C14_BustIffOver21 ==
    [][\A p \in Slots :
          /\ (req[p].pc = "hitUpdate" /\ req'[p].pc = "hitLog") =>
                LET r == rounds'[req[p].round.id]
                    over == calculateBestTotal(r.hand).total > 21
                IN  /\ r.hand # req[p].round.hand
                    /\ r.state = (IF over THEN "BUST" ELSE "PLAYING")
                    /\ over => (r.points = 0 /\ wallets' = wallets)
          /\ (req[p].pc = "hitRespond" /\ Stepped(p)) =>
                LET st == req'[p].resp.state
                    over == calculateBestTotal(st.hand).total > 21
                IN  /\ req'[p].resp.status = 200
                    /\ st.state = (IF over THEN "bust" ELSE "playing")
                    /\ over => (st.pointsLastRound = 0 /\ wallets' = wallets)
    ]_vars

\* a hit has bust a round
C14_Witness ==
    \E p \in Slots :
        /\ req[p].kind = "hit" /\ req[p].pc = "done" /\ req[p].resp.status = 200
        /\ req[p].resp.state.state = "bust" /\ req[p].resp.state.total > 21
        /\ req[p].resp.state.pointsLastRound = 0
        /\ rounds[req[p].roundId].state = "BUST"

\* C15: a stored round in state PLAYING or IDLE has points 0, and the points
\* of a round that is BUST or FINISHED are never written with another value.
C15_PointsFrozen ==
    [][\A i \in 1..Len(rounds) :
          /\ rounds'[i].state \in {"PLAYING", "IDLE"} => rounds'[i].points = 0
          /\ Terminal(rounds[i].state) => rounds'[i].points = rounds[i].points
    ]_vars

\* C16: every stored round has total = bestTotal(hand) of its stored hand.
C16_TotalIsBestTotal ==
    \A i \in 1..Len(rounds) :
        rounds[i].total = calculateBestTotal(rounds[i].hand).total

\* C17: a round's stored state changes only from PLAYING: to BUST in the write
\* of a hit whose new total exceeds 21, to FINISHED in the transaction of a
\* stand; rounds are created PLAYING by start; a hit or stand writes a round
\* only while canPerformAction holds for the state the round is stored in.
C17_LegalTransitions ==
    [][/\ \A i \in (Len(rounds) + 1)..Len(rounds') :
             /\ rounds'[i].state = "PLAYING"
             /\ \E p \in Slots : req[p].kind = "start" /\ req[p].pc = "create"
       /\ \A i \in 1..Len(rounds) :
             rounds'[i] # rounds[i] =>
                \E p \in Slots :
                    /\ Stepped(p) /\ req[p].round.id = i
                    /\ canPerformAction(fromPrismaRoundState(rounds[i].state), req[p].kind)
                    /\ \/ /\ req[p].kind = "hit"
                          /\ rounds'[i].state =
                                (IF rounds'[i].total > 21 THEN "BUST" ELSE "PLAYING")
                       \/ /\ req[p].kind = "stand"
                          /\ rounds'[i].state = "FINISHED"
    ]_vars

(***************************************************************************)
(* The exhausted deck (SpecDrift: the stored hand may hold all 52 cards).  *)
(***************************************************************************)
HoldsWholeDeck(hand) ==
    \A k \in 1..Len(buildDeck) : \E a \in 1..Len(hand) : hand[a] = buildDeck[k]

\* C12: a hit that has read a PLAYING round whose hand holds all 52 cards
\* is answered 410 in its write step, and that step changes no round, no
\* wallet and no log entry: no card is appended.
C12_DeckExhausted ==
    [][\A p \in Slots :
          ( /\ req[p].pc = "hitUpdate" /\ Stepped(p)
            /\ req[p].round.state = "PLAYING"
            /\ HoldsWholeDeck(req[p].round.hand) )
          => /\ DbUnchanged
             /\ req'[p].pc = "done"
             /\ req'[p].resp.status = 410
    ]_vars

\* a hit on a round holding the whole deck has been answered 410
C12_Witness ==
    \E p \in Slots :
        /\ req[p].kind = "hit" /\ req[p].pc = "done" /\ req[p].resp.status = 410
        /\ Len(rounds[req[p].roundId].hand) = Len(buildDeck)
        /\ rounds[req[p].roundId].state = "PLAYING"
        /\ logs = <<>>

(***************************************************************************)
(* The engine functions on their own.  calc holds one call: the arguments  *)
(* and the result; the tables stay empty and no request is issued.         *)
(***************************************************************************)
NoTables ==
    /\ rounds = <<>>
    /\ wallets = [u \in Users |-> NoWallet]
    /\ logs = <<>>
    /\ req = [p \in Slots |-> IdleReq]
    /\ issued = 0

TablesUnchanged == UNCHANGED <<rounds, wallets, logs, req, issued, decks>>

(***************************************************************************)
(* calculatePoints, called on one total after another                      *)
(***************************************************************************)
\* largest total scored: 21 and the ten above it a single card can reach
MaxTotal == 31

PointsCall(total, prev) ==
    [fn |-> "calculatePoints", total |-> total, points |-> calculatePoints(total),
     prevTotal |-> prev.total, prevPoints |-> prev.points]

InitPoints ==
    /\ NoTables
    /\ decks = <<>>
    /\ calc = PointsCall(0, [total |-> 0, points |-> calculatePoints(0)])

NextPoints ==
    /\ \E total \in 0..MaxTotal : calc' = PointsCall(total, calc)
    /\ TablesUnchanged

SpecPoints == InitPoints /\ [][NextPoints]_vars

\* C20: calculatePoints(total) is 0 above 21, 100 at 21, the integer p with
\* p <= total * 100 / 21 < p + 1 for 0 < total < 21 (85 at 18) and 0 at 0;
\* of two totals in 1..21 the larger never scores less.
C20_PointsTable ==
    LET t == calc.total
        p == calc.points
    IN  /\ t > 21 => p = 0
        /\ t = 21 => p = 100
        /\ (0 < t /\ t < 21) => (p * 21 <= t * 100 /\ t * 100 < (p + 1) * 21)
        /\ t = 0 => p = 0
        /\ t = 18 => p = 85
        /\ t = 20 => p = 95
        /\ t = 1 => p = 4
        /\ (1 <= calc.prevTotal /\ calc.prevTotal <= t /\ t <= 21)
              => calc.prevPoints <= p

\* 18 has been scored 85 right after 17 was scored 80
C20_Witness ==
    /\ calc.total = 18 /\ calc.points = 85
    /\ calc.prevTotal = 17 /\ calc.prevPoints = 80

(***************************************************************************)
(* calculateBestTotal, called on a hand that grows card by card            *)
(***************************************************************************)
\* cards in the hands scored
MaxScoreCards == 5

\* the four aces and cards worth 2, 5, 9, 10 and 10
ScoreCards ==
    { <<"A", "S">>, <<"A", "H">>, <<"A", "D">>, <<"A", "C">>, <<"2", "S">>,
      <<"5", "H">>, <<"9", "D">>, <<"1", "0", "C">>, <<"K", "S">> }

ScoreCall(cards) ==
    [fn |-> "calculateBestTotal", cards |-> cards, result |-> calculateBestTotal(cards)]

InitScore ==
    /\ NoTables
    /\ decks = <<>>
    /\ calc = ScoreCall(<<>>)

NextScore ==
    /\ Len(calc.cards) < MaxScoreCards
    /\ \E c \in ScoreCards :
          /\ \A k \in 1..Len(calc.cards) : calc.cards[k] # c
          /\ calc' = ScoreCall(Append(calc.cards, c))
    /\ TablesUnchanged

SpecScore == InitScore /\ [][NextScore]_vars

\* the total of cards[1..n] when the ace at position k counts as count[k]
RECURSIVE CountedTotal(_, _, _)
CountedTotal(cards, count, n) ==
    IF n = 0 THEN 0
    ELSE CountedTotal(cards, count, n - 1)
         + (IF RankOf(cards[n]) = <<"A">> THEN count[n]
            ELSE rankBaseValue(RankOf(cards[n])))

\* C19: calculateBestTotal returns the largest total not above 21 among all
\* ways of counting each ace 1 or 11 when there is one, otherwise the total
\* with every ace counted 1; soft holds exactly when the returned total is
\* that of a counting with some ace at 11.
C19_BestTotalOptimal ==
    LET cards == calc.cards
        res == calc.result
        aces == { k \in 1..Len(cards) : RankOf(cards[k]) = <<"A">> }
        Countings == [aces -> {1, 11}]
        Total(f) == CountedTotal(cards, f, Len(cards))
        Fits == { f \in Countings : Total(f) <= 21 }
    IN  /\ Fits # {} =>
              /\ \E f \in Fits : Total(f) = res.total
              /\ \A f \in Fits : Total(f) <= res.total
        /\ Fits = {} => res.total = Total([k \in aces |-> 1])
        /\ res.soft <=>
              \E f \in Countings : Total(f) = res.total /\ \E k \in aces : f[k] = 11

\* a hand with two aces has been scored 21 and soft
C19_Witness ==
    /\ Cardinality({ k \in 1..Len(calc.cards) : RankOf(calc.cards[k]) = <<"A">> }) = 2
    /\ calc.result.total = 21
    /\ calc.result.soft

(***************************************************************************)
(* createShuffledDeck, run iteration by iteration.  The loop of            *)
(* shuffleInPlace takes any generator: the seeded mulberry32 closure, or   *)
(* one that returns the same value of [0,1) at every call.                 *)
(***************************************************************************)
\* nonces the deck is shuffled with
MaxShuffleNonce == 1

ShuffleSeeds == Seeds \cup { <<>>, <<"a">>, <<"s", "1">> }

\* numerators out of rng() = out / 2^32: 0, 1 / 2^32, just below and at 1/2,
\* and the largest value below 1
FixedOuts == { <<0, 0>>, <<0, 1>>, <<32767, 65535>>, <<32768, 0>>, <<65535, 65535>> }

ShuffleStart(rng, seed, nonce, t) ==
    [fn |-> "createShuffledDeck", rng |-> rng, seed |-> seed, nonce |-> nonce,
     arr |-> buildDeck, t |-> t, i |-> Len(buildDeck) - 1, at |-> -1, j |-> -1]

InitShuffle ==
    /\ NoTables
    /\ decks = [k \in ShuffleSeeds \X (0..MaxShuffleNonce) |->
                    createShuffledDeck(k[1], k[2])]
    /\ \/ \E seed \in ShuffleSeeds, nonce \in 0..MaxShuffleNonce :
             calc = ShuffleStart("mulberry32", seed, nonce, createSeededRng(seed, nonce))
       \/ \E out \in FixedOuts :
             calc = ShuffleStart("fixed", <<>>, 0, out)

\* one iteration of the for loop: j = Math.floor(rng() * (i + 1)) and the swap
ShuffleIteration(out, t) ==
    LET i == calc.i
        j == SwapIndex(out, i + 1)
    IN  calc' = [calc EXCEPT
                    !.arr = [calc.arr EXCEPT ![i + 1] = calc.arr[j + 1],
                                             ![j + 1] = calc.arr[i + 1]],
                    !.t = t, !.i = i - 1, !.at = i, !.j = j]

ShuffleSeeded ==
    /\ calc.rng = "mulberry32"
    /\ calc.i > 0
    /\ LET g == mulberry32(calc.t) IN ShuffleIteration(g.out, g.t)
    /\ TablesUnchanged

ShuffleFixed ==
    /\ calc.rng = "fixed"
    /\ calc.i > 0
    /\ ShuffleIteration(calc.t, calc.t)
    /\ TablesUnchanged

NextShuffle == ShuffleSeeded \/ ShuffleFixed

SpecShuffle == InitShuffle /\ [][NextShuffle]_vars

IsDeckPermutation(deck) ==
    /\ Len(deck) = 52
    /\ \A a, b \in 1..Len(deck) : a # b => deck[a] # deck[b]
    /\ \A a \in 1..Len(deck) : isCardCode(deck[a])
    /\ \A k \in 1..Len(buildDeck) : \E a \in 1..Len(deck) : deck[a] = buildDeck[k]

\* C18: every deck createShuffledDeck returns holds the 52 card codes of the
\* canonical deck, each once; running the shuffle again for the same seed and
\* nonce ends in the same sequence; and at every iteration, for the seeded
\* generator and for any fixed value in [0,1), the swap index j at position i
\* satisfies 0 <= j <= i and the array stays a permutation of the deck.
C18_ShuffledDeckPermutation ==
    /\ \A k \in DOMAIN decks : IsDeckPermutation(decks[k])
    /\ IsDeckPermutation(calc.arr)
    /\ calc.at # -1 => (0 <= calc.j /\ calc.j <= calc.at)
    /\ (calc.rng = "mulberry32" /\ calc.i = 0) =>
          calc.arr = decks[<<calc.seed, calc.nonce>>]

\* a seeded shuffle with a nonce other than 0 has run to its end and has
\* moved cards
C18_Witness ==
    /\ calc.rng = "mulberry32" /\ calc.i = 0 /\ calc.nonce = 1
    /\ calc.arr = decks[<<calc.seed, calc.nonce>>]
    /\ calc.arr # buildDeck
    /\ calc.arr # decks[<<calc.seed, 0>>]

(***************************************************************************)
(* What a response tells its receiver about the cards not yet dealt.       *)
(***************************************************************************)
\* a stored round in step with its deck: the first n cards of the deck of
\* seed are in hand
RoundInStep(id, seed, n) ==
    LET hand == SubSeq(decks[<<seed, 0>>], 1, n)
    IN  [id |-> id, state |-> "PLAYING", seed |-> seed, nonce |-> n, hand |-> hand,
         total |-> calculateBestTotal(hand).total, points |-> 0]

\* the orders of undrawn cards of the playing rounds whose snapshot is st
UndrawnOrders(st) ==
    { SubSeq(decks[<<seed, 0>>], Len(st.hand) + 1, Len(decks[<<seed, 0>>])) :
        seed \in { s \in Seeds :
                     toApiState(RoundInStep(st.roundId, s, Len(st.hand)), st.balance) = st } }

\* the responses that carry the snapshot of a playing round
PlayingSnapshots ==
    { p \in Slots : req[p].pc = "done" /\ req[p].resp.state # NoState
                    /\ req[p].resp.state.state = "playing" }

\* C21: no response exposes the undrawn deck: the snapshot a caller receives
\* (roundId, state, seed, nonce, hand, total, pointsLastRound, balance) does
\* not determine the cards not yet in the hand, that is, the same snapshot is
\* sent for rounds with different orders of undrawn cards.
C21_UndrawnNotDetermined ==
    \A p \in PlayingSnapshots : Cardinality(UndrawnOrders(req[p].resp.state)) > 1

(***************************************************************************)
(* The round log against the transitions applied to the round.             *)
(***************************************************************************)
Quiescent == \A p \in Slots : req[p].pc \in {"idle", "done"}

LogEntries(id, actions) ==
    { k \in 1..Len(logs) : logs[k].roundId = id /\ logs[k].action \in actions }

\* C22: once no request is in flight, the log of every round holds one entry
\* per applied transition: one start entry, as many hit or bust entries as
\* there are cards in the hand, and one stand entry exactly when the round
\* is finished.
C22_LogMatchesTransitions ==
    Quiescent =>
        \A i \in 1..Len(rounds) :
            /\ Cardinality(LogEntries(i, {"start"})) = 1
            /\ Cardinality(LogEntries(i, {"hit", "bust"})) = Len(rounds[i].hand)
            /\ Cardinality(LogEntries(i, {"stand"})) =
                  (IF rounds[i].state = "FINISHED" THEN 1 ELSE 0)

(***************************************************************************)
(* The stand that loses the race to finalize (SpecStand).                  *)
(***************************************************************************)
\* the stand at p read the round as PLAYING and finds it no longer PLAYING
LosesFinalize(p) ==
    /\ req[p].kind = "stand" /\ req[p].pc = "haveWallet"
    /\ req[p].round.state = "PLAYING"
    /\ rounds[req[p].round.id].state # "PLAYING"

\* C23: the stand that loses the race to finalize writes nothing and is
\* answered 409 with a snapshot that shows the round finished with the
\* winner's points and the wallet balance after the winner's credit.
C23_LoserSeesWinner ==
    [][\A p \in Slots :
          (LosesFinalize(p) /\ Stepped(p)) =>
             LET r == rounds[req[p].round.id]
                 pts == calculatePoints(calculateBestTotal(r.hand).total)
                 st == req'[p].resp.state
             IN  /\ DbUnchanged
                 /\ req'[p].pc = "done"
                 /\ req'[p].resp.status = 409
                 /\ st.state = "finished"
                 /\ st.hand = r.hand /\ st.total = r.total
                 /\ st.pointsLastRound = pts
                 /\ st.balance = walletIncrement(0, pts)
                 /\ st.balance = wallets[req[p].user].balance]_vars

\* a stand that read the round as PLAYING was answered 409 with the finished
\* round and a credited balance
C23_Witness ==
    \E p \in Slots :
        /\ req[p].kind = "stand" /\ req[p].pc = "done"
        /\ req[p].round # NoRound /\ req[p].round.state = "PLAYING"
        /\ req[p].resp.status = 409
        /\ req[p].resp.state.state = "finished"
        /\ req[p].resp.state.pointsLastRound > 0
        /\ req[p].resp.state.balance = req[p].resp.state.pointsLastRound

(***************************************************************************)
(* Isolation between users (Spec).                                         *)
(***************************************************************************)
\* the request at p names an existing round of another user and is about to
\* look it up
NamesForeignRound(p) ==
    /\ req[p].pc \in {"hitRead", "standRead"}
    /\ req[p].roundId \in 1..Len(rounds)
    /\ rounds[req[p].roundId].userId # req[p].user

\* C24: a step of a request of user u changes no round, wallet or log of
\* another user: every round it writes or creates is owned by u, every wallet
\* it writes is u's, every log entry it adds belongs to a round of u; and a
\* hit or stand that names a round of another user is answered 404 with
\* nothing written.
C24_UserIsolation ==
    [][\A p \in Slots :
          Stepped(p) =>
             LET u == req'[p].user
             IN  /\ Len(rounds') >= Len(rounds)
                 /\ \A i \in 1..Len(rounds') :
                       (i > Len(rounds) \/ rounds'[i] # rounds[i]) => rounds'[i].userId = u
                 /\ \A w \in Users : wallets'[w] # wallets[w] => w = u
                 /\ Len(logs') >= Len(logs)
                 /\ \A k \in 1..Len(logs') :
                       IF k <= Len(logs) THEN logs'[k] = logs[k]
                       ELSE rounds'[logs'[k].roundId].userId = u
                 /\ NamesForeignRound(p) =>
                       /\ DbUnchanged
                       /\ req'[p].pc = "done"
                       /\ req'[p].resp = ErrorResp(404)]_vars

\* a hit or stand that named another user's round while that user had a
\* wallet has been answered 404
C24_Witness ==
    \E p \in Slots :
        /\ req[p].kind \in {"hit", "stand"} /\ req[p].pc = "done"
        /\ req[p].roundId \in 1..Len(rounds)
        /\ rounds[req[p].roundId].userId # req[p].user
        /\ wallets[rounds[req[p].roundId].userId].exists
        /\ req[p].resp.status = 404

(***************************************************************************)
(* Concurrent start requests of one user (Spec).                           *)
(***************************************************************************)
\* C25: every user has at most one round in state PLAYING at any time, also
\* when two start requests of the user both look for an open round before
\* either creates one.
C25_OnePlayingRound ==
    \A u \in Users :
        Cardinality({ i \in 1..Len(rounds) :
                        rounds[i].userId = u /\ rounds[i].state = "PLAYING" }) <= 1

(***************************************************************************)
(* The wallet against the finished rounds (Spec).                          *)
(***************************************************************************)
\* the sum of the stored points of the first n rounds that are FINISHED and
\* owned by u
RECURSIVE FinishedPoints(_, _)
FinishedPoints(u, n) ==
    IF n = 0 THEN 0
    ELSE FinishedPoints(u, n - 1)
         + (IF rounds[n].userId = u /\ rounds[n].state = "FINISHED"
            THEN rounds[n].points ELSE 0)

\* C26: the balance of every wallet is the sum of the points stored on the
\* owner's FINISHED rounds, so that a round credits the wallet at most once
\* however hit and stand requests interleave.
C26_BalanceIsFinishedPoints ==
    \A u \in Users :
        BalanceOrZero(wallets[u]) = FinishedPoints(u, Len(rounds))

(***************************************************************************)
(* Hit requests of the owner on one PLAYING round.  The round is the one   *)
(* of InitStand: its hand is a prefix of its deck that has not bust.       *)
(***************************************************************************)
SpecHits == InitStand /\ [][NextDrift]_vars

IsPrefix(s, t) == Len(s) <= Len(t) /\ SubSeq(t, 1, Len(s)) = s

\* C27: within a round the nonce never decreases and the hand only grows by
\* appending: the hand at an earlier time is a prefix of the hand at every
\* later time, however hit requests interleave.
C27_HandOnlyGrows ==
    [][\A i \in 1..Len(rounds) :
          /\ rounds'[i].nonce >= rounds[i].nonce
          /\ IsPrefix(rounds[i].hand, rounds'[i].hand)]_vars

(***************************************************************************)
(* The pure engine (initRound, performHit), which carries the remainder of *)
(* the deck, against the hit route, which recomputes the deck and indexes  *)
(* it by the stored nonce.  Both start from the same initRound result and  *)
(* take one hit per step, with no other request in between.                *)
(***************************************************************************)
\* hits applied in a row
MaxEngineHits == 13

performHit(params) ==
    LET deck == IF Len(params.deckLeft) = 0
                THEN shuffledDeck(params.seed, params.nonce + 1)
                ELSE params.deckLeft
        draw == drawCard(deck)
        hand == params.hand \o <<draw.card>>
        total == calculateBestTotal(hand).total
        state == IF isBust(total) THEN "bust" ELSE "playing"
    IN  [hand |-> hand,
         total |-> total,
         state |-> state,
         card |-> draw.card,
         deckLeft |-> draw.deck,
         nonce |-> params.nonce + 1,
         log |-> [action |-> IF isBust(total) THEN "bust" ELSE "hit",
                  card |-> draw.card, totalAfter |-> total, nonce |-> params.nonce + 1]]

\* one hit request run from its lookup to its update with nothing in
\* between: the status it is answered with and the row it leaves
hitAlone(round) ==
    LET d == hitData(round)
    IN  IF roundNotPlaying(round) THEN [status |-> 409, round |-> round]
        ELSE IF ~d.found THEN [status |-> 410, round |-> round]
        ELSE [status |-> 200,
              round |-> [round EXCEPT !.hand = d.hand, !.total = d.total,
                                      !.nonce = d.nonce, !.state = d.state,
                                      !.points = d.points]]

EngineCall(seed, dealOne, k, engine, stored, status, refused) ==
    [fn |-> "performHit", seed |-> seed, dealOne |-> dealOne, k |-> k,
     engine |-> engine, stored |-> stored, status |-> status, refused |-> refused]

InitEngine ==
    /\ NoTables
    /\ decks = [k \in Seeds \X {0} |-> createShuffledDeck(k[1], k[2])]
    /\ \E u \in Users, t \in Times, id \in UUIDs, dealOne \in BOOLEAN :
          LET seed == deriveSeed(<<u, t, id>>)
              started == initRound(seed, 0, dealOne)
          IN  calc = EngineCall(seed, dealOne, 0,
                        [state |-> started.state, nonce |-> started.nonce,
                         hand |-> started.hand, total |-> started.total,
                         deckLeft |-> started.deckLeft],
                        [id |-> 1, userId |-> u,
                         state |-> toPrismaRoundState(started.state),
                         seed |-> started.seed, nonce |-> started.nonce,
                         hand |-> started.hand, total |-> started.total, points |-> 0],
                        0, FALSE)

\* the k-th hit on both sides
EngineHit ==
    /\ calc.k < MaxEngineHits
    /\ LET hit == performHit([roundId |-> 1, seed |-> calc.seed,
                              nonce |-> calc.engine.nonce, hand |-> calc.engine.hand,
                              deckLeft |-> calc.engine.deckLeft])
           answered == hitAlone(calc.stored)
       IN  calc' = EngineCall(calc.seed, calc.dealOne, calc.k + 1,
                      [state |-> hit.state, nonce |-> hit.nonce, hand |-> hit.hand,
                       total |-> hit.total, deckLeft |-> hit.deckLeft],
                      answered.round, answered.status,
                      calc.refused \/ answered.status # 200)
    /\ TablesUnchanged

NextEngine == EngineHit

SpecEngine == InitEngine /\ [][NextEngine]_vars

\* the engine and the stored round agree on hand, total, nonce and state
EngineAgrees ==
    /\ calc.engine.hand = calc.stored.hand
    /\ calc.engine.total = calc.stored.total
    /\ calc.engine.nonce = calc.stored.nonce
    /\ calc.engine.state = fromPrismaRoundState(calc.stored.state)

\* C28 as stated: for every number of hits k that leaves the remainder
\* non-empty, performHit applied k times to the result of initRound yields
\* the same cards, total, nonce and state as k hits of the hit route.
C28_EngineMatchesRoute ==
    Len(calc.engine.deckLeft) > 0 => EngineAgrees

\* C28, amended: performHit applied k times to the result of initRound yields
\* the same cards, total, nonce and state as k hits of the hit route for
\* every k up to and including the hit that busts the round, that is, as
\* long as the route has refused none of the hits.
C28_EngineMatchesUntilBust ==
    ~calc.refused => (EngineAgrees /\ calc.status \in {0, 200})

\* both sides have dealt three cards from an empty initial hand and the
\* third bust the round
C28_Witness ==
    /\ ~calc.dealOne /\ calc.k = 3 /\ ~calc.refused
    /\ calc.stored.state = "BUST"
    /\ calc.engine.state = "bust"
    /\ Len(calc.engine.hand) = 3 /\ calc.engine.hand = calc.stored.hand

(***************************************************************************)
(* How long a hand can get.  The claim is over every seed, so the deck of  *)
(* the round is either the one createShuffledDeck computes for its seed or *)
(* the deck in canonical order (four aces, four twos, four threes, ...),   *)
(* the order in which a hand stays at or below 21 the longest.  The round  *)
(* is one that start and hits have produced: its hand is a prefix of its   *)
(* deck that has not bust.  The requests are the owner's hits.             *)
(***************************************************************************)
\* cards dealt to the round before the hits arrive
MaxLongCards == 11

InitLong ==
    /\ \/ decks = [k \in Seeds \X {0} |-> createShuffledDeck(k[1], k[2])]
       \/ decks = [k \in Seeds \X {0} |-> buildDeck]
    /\ \E u \in Users, t \in Times, id \in DriftUUIDs, n \in 0..MaxLongCards :
          LET seed == deriveSeed(<<u, t, id>>)
              deck == decks[<<seed, 0>>]
          IN  /\ ~isBust(calculateBestTotal(SubSeq(deck, 1, n)).total)
              /\ rounds = <<StoredRound(u, seed, SubSeq(deck, 1, n), n)>>
              /\ logs = dealLogs(deck, n)
              /\ wallets = [w \in Users |->
                              IF w = u THEN [exists |-> TRUE, balance |-> 0] ELSE NoWallet]
    /\ req = [p \in Slots |-> IdleReq]
    /\ issued = 0
    /\ calc = NoCalc

SpecLong == InitLong /\ [][NextDrift]_vars

\* C29: a round created by start and advanced by hit holds at most 11 cards
\* while it is PLAYING and at most 12 cards in any state, so repeated hits
\* reach bust after finitely many hits, and no hit on such a round is
\* answered with the deck-exhausted outcome (410).
C29_HandBounded ==
    /\ \A i \in 1..Len(rounds) :
          /\ rounds[i].state = "PLAYING" => Len(rounds[i].hand) <= 11
          /\ Len(rounds[i].hand) <= 12
    /\ \A p \in Slots : req[p].pc = "done" => req[p].resp.status # 410

\* a round went bust on its twelfth card and a further hit was refused
C29_Witness ==
    /\ rounds[1].state = "BUST" /\ Len(rounds[1].hand) = 12
    /\ \E p \in Slots :
          /\ req[p].kind = "hit" /\ req[p].pc = "done"
          /\ req[p].round = rounds[1]
          /\ req[p].resp.status = 409

(***************************************************************************)
(* fnv1a32 against the FNV-1a 32-bit function it is named after.           *)
(***************************************************************************)
\* length of the strings hashed
MaxHashLen == 3

\* the characters CharCode knows
HashChars == { "|", "a", "b", "d", "s", "t", "u", "0", "1", "2", "3" }

\* FNV-1a 32-bit: h := ((h XOR c) * 0x01000193) mod 2^32 for each character,
\* from the offset basis 0x811c9dc5; the product is exact
RECURSIVE Fnv1aReference(_, _, _)
Fnv1aReference(h, str, i) ==
    IF i > Len(str) THEN h
    ELSE Fnv1aReference(Imul32(Xor32(h, Word(CharCode(str[i]))), <<256, 403>>), str, i + 1)

HashCall(str) ==
    [fn |-> "fnv1a32", str |-> str, h |-> fnv1a32(str),
     reference |-> Fnv1aReference(<<33052, 40389>>, str, 1)]

InitHash ==
    /\ NoTables
    /\ decks = <<>>
    /\ calc = HashCall(<<>>)

\* fnv1a32 is called on the string with one more character
NextHash ==
    /\ Len(calc.str) < MaxHashLen
    /\ \E ch \in HashChars : calc' = HashCall(Append(calc.str, ch))
    /\ TablesUnchanged

SpecHash == InitHash /\ [][NextHash]_vars

\* C30: for every string, fnv1a32 returns the FNV-1a 32-bit hash of its
\* character codes: h := ((h XOR c) * 0x01000193) mod 2^32 for each
\* character c, starting from 0x811c9dc5.
C30_FnvIsReference == calc.h = calc.reference

====
